---- MODULE Spec2Model ----
(***************************************************************************)
(* Orchestration and delegation engine of the Hedera AI assistant.         *)
(*                                                                         *)
(* Modelled code:                                                          *)
(*   services/geminiServices.ts        processUserPrompt  (unnamed/part_000)*)
(*   services/agents/router.ts  (V3)   routeRequest, processAgentResponse, *)
(*                                     initializeContext  (unnamed/part_013)*)
(*   services/agents/router.ts  (V2)   routeRequest, initializeContext     *)
(*   services/agents/agentUtils.ts     callAgent                           *)
(*   general/generalAgent.ts           GeneralAgent       (unnamed/part_004)*)
(*   utility/onboardingAgent.ts        OnboardingAgent                     *)
(*   wallet/createAccountAgent.ts      CreateAccountAgent (unnamed/part_011)*)
(*   token/sendFungibleAgent.ts        SendFungibleAgent                   *)
(*   app/page.tsx                      HederaAIPage (the caller)           *)
(*                                                                         *)
(* A turn is executed in small steps: the router decides a branch, every   *)
(* callAgent is one step (the dynamic import is an await, so the tasks of  *)
(* a batch run in any order), Promise.all is the collect step.             *)
(***************************************************************************)
EXTENDS Integers, Sequences, FiniteSets, TLC

(***************************************************************************)
(* Bounds of the model.                                                    *)
(***************************************************************************)
MaxTurns == 2
MaxGuidedTurns == 6
MaxTasks == 2
MaxRounds == 26
MaxSendReplies == 4

(***************************************************************************)
(* Worker names.  A worker is loaded with import(`./${agentName}`); the    *)
(* workers in Loadable are the modules the model executes, TypoAgent is a  *)
(* mistyped name for which no module exists, UndefinedAgent is the name    *)
(* read from an empty call_stack or from a task without an agent field.    *)
(***************************************************************************)
GeneralAgent == "general/generalAgent"
OnboardingAgent == "utility/onboardingAgent"
CreateAccountAgent == "wallet/createAccountAgent"
SendFungibleAgent == "token/sendFungibleAgent"
SecurityAgent == "utility/securityAgent"
MemoryAgent == "utility/memoryAgent"
TypoAgent == "wallet/createAcountAgent"
UndefinedAgent == "undefined"

Loadable == {GeneralAgent, OnboardingAgent, CreateAccountAgent, SendFungibleAgent, MemoryAgent}

(***************************************************************************)
(* JavaScript values of collected_info.  A key that was never written      *)
(* reads as undefined; undefined, null and the empty string are falsy.     *)
(***************************************************************************)
Undef == "undefined"
NullV == "null"
Falsy(v) == v \in {Undef, NullV, "", "NaN"}

EmptyInfo ==
  [ name |-> Undef, accountId |-> Undef, privateKey |-> Undef,
    password |-> Undef, long_term_memory |-> Undef,
    originalPrompt |-> Undef, onboarding_step |-> Undef,
    tokenId |-> Undef, amount |-> Undef, recipient |-> Undef,
    lastCreatedAccountId |-> Undef, lastCreatedAccountPrivateKey |-> Undef,
    lastCreatedAccountPublicKey |-> Undef,
    specialist_results |-> << >> ]

InfoKeys == DOMAIN EmptyInfo
StringKeys == InfoKeys \ {"specialist_results"}

\* The value of a key that is absent from the object.
Absent(k) == IF k = "specialist_results" THEN << >> ELSE Undef

(***************************************************************************)
(* ConversationContext | null                                              *)
(***************************************************************************)
NullCtx == [isNull |-> TRUE]
IsNull(c) == c = NullCtx

NoPayload == [kind |-> "none", items |-> << >>]
ObjectPayload(x) == [kind |-> "object", items |-> <<x>>]
ArrayPayload(xs) == [kind |-> "array", items |-> xs]
Action(t, p) == [type |-> t, payload |-> p]
CompleteGoal == Action("COMPLETE_GOAL", NoPayload)
RequestUserInput == Action("REQUEST_USER_INPUT", NoPayload)
Task(a, p) == [agent |-> a, prompt |-> p]

Last(s) == s[Len(s)]


(***************************************************************************)
(* router.ts: initializeContext, the context sanitizer.  The two routers   *)
(* preserve different keys: V2 name, accountId, long_term_memory; V3 adds  *)
(* privateKey and password.  A call without existingInfo uses {}.          *)
(***************************************************************************)
\* a sanitizer that spreads the whole of existingInfo into the new context
PreservedKeysSpread(ver) == InfoKeys

PreservedKeys(ver) ==
  IF ver = "V2" THEN {"name", "accountId", "long_term_memory"}
  ELSE {"name", "accountId", "privateKey", "password", "long_term_memory"}

\* agentName.split('/')[1].replace('Agent', '')
GoalOf(agentName) ==
  CASE agentName = GeneralAgent -> "general"
    [] agentName = OnboardingAgent -> "onboarding"
    [] agentName = CreateAccountAgent -> "createAccount"
    [] agentName = SendFungibleAgent -> "sendFungible"
    [] OTHER -> "unknown"

\* a sanitizer that starts the new context with an empty call_stack
initializeContextEmptyStack(ver, agentName, prompt, existingInfo) ==
  [ goal |-> GoalOf(agentName),
    status |-> "pending",
    collected_info |->
      [k \in InfoKeys |->
         IF k = "originalPrompt" THEN prompt
         ELSE IF k \in PreservedKeys(ver) THEN existingInfo[k]
         ELSE Absent(k)],
    call_stack |-> << >>,
    history |-> << <<"User initiated goal with prompt", prompt>> >> ]

initializeContext(ver, agentName, prompt, existingInfo) ==
  [ goal |-> GoalOf(agentName),
    status |-> "pending",
    collected_info |->
      [k \in InfoKeys |->
         IF k = "originalPrompt" THEN prompt
         ELSE IF k \in PreservedKeys(ver) THEN existingInfo[k]
         ELSE Absent(k)],
    call_stack |-> <<agentName>>,
    history |-> << <<"User initiated goal with prompt", prompt>> >> ]

(***************************************************************************)
(* AgentResponse and the outcome of one execute(): either an envelope or   *)
(* a thrown error, together with the caller's context object as the        *)
(* worker left it (a worker that writes through the shared collected_info  *)
(* reference changes the caller's object).  An envelope built with         *)
(* { ...context, status, history } keeps the caller's collected_info       *)
(* object (aliased); one built with collected_info: { ... } has a copy.    *)
(***************************************************************************)
Envelope(st, sp, ui, act, ctx) ==
  [status |-> st, speech |-> sp, ui |-> ui, action |-> act, context |-> ctx]

NoEnvelope == [none |-> TRUE]
Returned(env, ctxAfter) ==
  [thrown |-> FALSE, resp |-> env, ctxAfter |-> ctxAfter, aliased |-> FALSE]
Shared(env, ctxAfter) ==
  [thrown |-> FALSE, resp |-> env, ctxAfter |-> ctxAfter, aliased |-> TRUE]
Thrown(ctxAfter) ==
  [thrown |-> TRUE, resp |-> NoEnvelope, ctxAfter |-> ctxAfter, aliased |-> FALSE]

WithStatus(ctx, st, note) ==
  [ctx EXCEPT !.status = st, !.history = Append(ctx.history, note)]

(***************************************************************************)
(* general/generalAgent.ts (part_004).  The Reasoner's reply is the        *)
(* oracle: either no usable JSON (the call failed, no object was found,    *)
(* JSON.parse failed, or the object has no action), or an object whose     *)
(* action is passed through as it is.                                      *)
(***************************************************************************)
\* an error branch that reports the failure but leaves the status of the state as
\* it was
GeneralErrorResponseKeepStatus(ctx) ==
  Envelope("COMPLETE", <<"general:snag">>, <<"general:cognitive-error">>, CompleteGoal,
           WithStatus(ctx, ctx.status, <<"GeneralAgent failed">>))

GeneralErrorResponse(ctx) ==
  Envelope("COMPLETE", <<"general:snag">>, <<"general:cognitive-error">>, CompleteGoal,
           WithStatus(ctx, "failed", <<"GeneralAgent failed">>))

GeneralPlan(prompt, ctx, o) ==
  IF ~o.ok THEN GeneralErrorResponse(ctx)
  ELSE Envelope(IF o.action.type = "COMPLETE_GOAL" THEN "COMPLETE" ELSE "DELEGATING",
                <<"llm:plan-speech">>, <<"llm:plan-ui">>, o.action,
                WithStatus(ctx, "delegating",
                           <<"GeneralAgent created a plan", o.action.type>>))

GeneralSynthesize(prompt, ctx, o) ==
  IF ~o.ok THEN GeneralErrorResponse(ctx)
  ELSE Envelope("COMPLETE", <<"llm:final-speech">>, <<"llm:final-ui">>, CompleteGoal,
                WithStatus(ctx, "complete",
                           <<"GeneralAgent synthesized specialist results.">>))

\* a Planning Worker that does not find the results and plans again
GeneralExecuteAlwaysPlans(prompt, ctx, o) == Shared(GeneralPlan(prompt, ctx, o), ctx)

GeneralExecute(prompt, ctx, o) ==
  IF ctx.collected_info.specialist_results # << >>
  THEN Shared(GeneralSynthesize(prompt, ctx, o), ctx)
  ELSE Shared(GeneralPlan(prompt, ctx, o), ctx)

(***************************************************************************)
(* utility/onboardingAgent.ts.  updatedContext = { ...context } is a       *)
(* shallow copy, so every write to updatedContext.collected_info is a      *)
(* write to the caller's collected_info; the second component of the       *)
(* outcome is the caller's context after those writes.                     *)
(***************************************************************************)
REQUIRED_INFO == <<"name", "password", "accountId", "privateKey">>

OnbAccountChoiceResponse(ctx) ==
  Envelope("AWAITING_INPUT", <<"onboarding:account-choice">>, <<"onboarding:choice-ui">>,
           RequestUserInput,
           [ctx EXCEPT !.collected_info.onboarding_step = "account_id_choice",
                       !.status = "awaiting_user_input",
                       !.history = Append(@, <<"OnboardingAgent is asking for account choice.">>)])

delegateToCreateAccount(ctx) ==
  Envelope("DELEGATING", <<"onboarding:creating-account">>, <<"onboarding:loading">>,
           Action("DELEGATE",
                  ObjectPayload(Task(CreateAccountAgent,
                                     "The user wants to create a new Hedera account during onboarding."))),
           WithStatus(ctx, "delegating",
                      <<"OnboardingAgent is delegating to CreateAccountAgent.">>))

generateQuestionResponse(infoNeeded, ctx) ==
  Envelope("AWAITING_INPUT", <<"onboarding:ask">>, <<"onboarding:input-ui", infoNeeded>>,
           RequestUserInput,
           [ctx EXCEPT !.collected_info.onboarding_step = infoNeeded,
                       !.status = "awaiting_user_input",
                       !.history = Append(@, <<"OnboardingAgent is requesting", infoNeeded>>)])

\* a completion that hands over the account credentials but not the password
generateCompletionResponseNoPassword(ctx) ==
  Envelope("COMPLETE", <<"onboarding:all-set">>, <<"onboarding:setup-complete">>,
           Action("SAVE_CREDENTIALS",
                  ObjectPayload([name |-> ctx.collected_info.name,
                                 accountId |-> ctx.collected_info.accountId,
                                 privateKey |-> ctx.collected_info.privateKey,
                                 password |-> Undef])),
           [ctx EXCEPT !.status = "complete",
                       !.goal = "onboarding_complete",
                       !.history = Append(@, <<"OnboardingAgent completed successfully.">>)])

generateCompletionResponse(ctx) ==
  Envelope("COMPLETE", <<"onboarding:all-set">>, <<"onboarding:setup-complete">>,
           Action("SAVE_CREDENTIALS",
                  ObjectPayload([name |-> ctx.collected_info.name,
                                 accountId |-> ctx.collected_info.accountId,
                                 privateKey |-> ctx.collected_info.privateKey,
                                 password |-> ctx.collected_info.password])),
           [ctx EXCEPT !.status = "complete",
                       !.goal = "onboarding_complete",
                       !.history = Append(@, <<"OnboardingAgent completed successfully.">>)])

\* REQUIRED_INFO.find(info => !collected_info[info]); "" when nothing is missing
NextInfoToCollect(info) ==
  LET missing == {i \in 1..Len(REQUIRED_INFO) : Falsy(info[REQUIRED_INFO[i]])}
  IN IF missing = {} THEN ""
     ELSE REQUIRED_INFO[CHOOSE i \in missing : \A j \in missing : i <= j]

\* lines 38-47: adopt the credentials of a finished createAccount task
OnbAdoptCreated(info0, info) ==
  LET results == info0.specialist_results
      first == results[1]
  IN IF results # << >> /\ first.context.goal = "createAccount"
        /\ ~Falsy(first.context.collected_info.lastCreatedAccountId)
        /\ ~Falsy(first.context.collected_info.lastCreatedAccountPrivateKey)
     THEN [info EXCEPT !.accountId = first.context.collected_info.lastCreatedAccountId,
                       !.privateKey = first.context.collected_info.lastCreatedAccountPrivateKey,
                       !.specialist_results = << >>]
     ELSE info

\* a worker that takes every prompt as a reply, the name when it has asked nothing yet
OnboardingExecuteStoresFirstPrompt(prompt, ctx, o) ==
  LET step == ctx.collected_info.onboarding_step
      info1 == IF Falsy(step)
               THEN [ctx.collected_info EXCEPT !.name = prompt]
               ELSE IF step # "account_id_choice"
               THEN [ctx.collected_info EXCEPT ![step] = prompt]
               ELSE ctx.collected_info
      ctx1 == [ctx EXCEPT !.collected_info = info1]
  IN IF step = "account_id_choice" /\ prompt = "create_new_account"
     THEN Shared(delegateToCreateAccount(ctx1), ctx1)
     ELSE IF step = "account_id_choice" /\ prompt = "provide_existing_account"
     THEN LET ctx2 == [ctx1 EXCEPT !.collected_info.onboarding_step = NullV]
          IN Returned(generateQuestionResponse("accountId", ctx2), ctx2)
     ELSE LET info3 == OnbAdoptCreated(info1, info1)
              ctx3 == [ctx1 EXCEPT !.collected_info = info3]
              next == NextInfoToCollect(info3)
          IN IF next = "" THEN Returned(generateCompletionResponse(ctx3), ctx3)
             ELSE IF next = "accountId" THEN Returned(OnbAccountChoiceResponse(ctx3), ctx3)
             ELSE Returned(generateQuestionResponse(next, ctx3), ctx3)

OnboardingExecute(prompt, ctx, o) ==
  LET step == ctx.collected_info.onboarding_step
      \* lines 17-19
      info1 == IF ~Falsy(step) /\ step # "account_id_choice"
               THEN [ctx.collected_info EXCEPT ![step] = prompt]
               ELSE ctx.collected_info
      ctx1 == [ctx EXCEPT !.collected_info = info1]
  IN IF step = "account_id_choice" /\ prompt = "create_new_account"
     THEN Shared(delegateToCreateAccount(ctx1), ctx1)
     ELSE IF step = "account_id_choice" /\ prompt = "provide_existing_account"
     THEN LET ctx2 == [ctx1 EXCEPT !.collected_info.onboarding_step = NullV]
          IN Returned(generateQuestionResponse("accountId", ctx2), ctx2)
     ELSE LET info3 == OnbAdoptCreated(info1, info1)
              ctx3 == [ctx1 EXCEPT !.collected_info = info3]
              next == NextInfoToCollect(info3)
          IN IF next = "" THEN Returned(generateCompletionResponse(ctx3), ctx3)
             ELSE IF next = "accountId" THEN Returned(OnbAccountChoiceResponse(ctx3), ctx3)
             ELSE Returned(generateQuestionResponse(next, ctx3), ctx3)

(***************************************************************************)
(* wallet/createAccountAgent.ts (part_011).  The oracle is the outcome of  *)
(* the /api/createAccount call.                                            *)
(***************************************************************************)
\* a worker that pushes its own name on call_stack when it pauses
CreateAccountExecutePushesSelf(prompt, ctx, o) ==
  IF prompt = "creation_confirmed"
  THEN Shared(Envelope("COMPLETE", <<"createAccount:continue">>, <<"createAccount:loading">>,
                         CompleteGoal,
                         WithStatus(ctx, "complete",
                                    <<"CreateAccountAgent completed successfully.">>)), ctx)
  ELSE IF o.ok
  THEN Returned(Envelope("AWAITING_INPUT", <<"createAccount:created">>, <<"createAccount:keys-ui">>,
                         RequestUserInput,
                         [ctx EXCEPT !.collected_info.lastCreatedAccountId = "0.0.1001",
                                     !.collected_info.lastCreatedAccountPrivateKey = "newPrivateKey",
                                     !.collected_info.lastCreatedAccountPublicKey = "newPublicKey",
                                     !.status = "awaiting_user_input",
                                     !.call_stack = Append(@, CreateAccountAgent),
                                     !.history = Append(@, <<"CreateAccountAgent created", "0.0.1001">>)]),
                ctx)
  ELSE Shared(Envelope("COMPLETE", <<"createAccount:problem">>, <<"createAccount:failed-ui">>,
                         CompleteGoal,
                         WithStatus(ctx, "failed", <<"CreateAccountAgent failed">>)), ctx)

CreateAccountExecute(prompt, ctx, o) ==
  IF prompt = "creation_confirmed"
  THEN Shared(Envelope("COMPLETE", <<"createAccount:continue">>, <<"createAccount:loading">>,
                         CompleteGoal,
                         WithStatus(ctx, "complete",
                                    <<"CreateAccountAgent completed successfully.">>)), ctx)
  ELSE IF o.ok
  THEN Returned(Envelope("AWAITING_INPUT", <<"createAccount:created">>, <<"createAccount:keys-ui">>,
                         RequestUserInput,
                         [ctx EXCEPT !.collected_info.lastCreatedAccountId = "0.0.1001",
                                     !.collected_info.lastCreatedAccountPrivateKey = "newPrivateKey",
                                     !.collected_info.lastCreatedAccountPublicKey = "newPublicKey",
                                     !.status = "awaiting_user_input",
                                     !.history = Append(@, <<"CreateAccountAgent created", "0.0.1001">>)]),
                ctx)
  ELSE Shared(Envelope("COMPLETE", <<"createAccount:problem">>, <<"createAccount:failed-ui">>,
                         CompleteGoal,
                         WithStatus(ctx, "failed", <<"CreateAccountAgent failed">>)), ctx)

(***************************************************************************)
(* token/sendFungibleAgent.ts.  The whole body is inside try/catch, every  *)
(* throw becomes createErrorResponse.  The oracle is the outcome of the    *)
(* /api/sendToken call followed by the Reasoner call.                      *)
(***************************************************************************)
NumericPrompts == {"5"}
ParseFloat(p) == IF p \in NumericPrompts THEN p ELSE "NaN"

SendErrorResponse(ctx) ==
  Envelope("COMPLETE", <<"send:error">>, <<"send:failed-ui">>, CompleteGoal,
           WithStatus(ctx, "failed", <<"SendFungibleAgent failed">>))

SendAwait(ctx, what) ==
  Envelope("AWAITING_INPUT", <<"send:ask", what>>, <<"send:input-ui", what>>,
           RequestUserInput,
           WithStatus(ctx, "awaiting_user_input", <<"SendFungibleAgent requesting", what>>))

requestTransferInfo(ctx, prompt) ==
  IF Falsy(ctx.collected_info.tokenId)
  THEN SendAwait(ctx, "token ID")
  ELSE IF Falsy(ctx.collected_info.amount)
  THEN SendAwait([ctx EXCEPT !.collected_info.tokenId = prompt], "amount")
  ELSE IF Falsy(ctx.collected_info.recipient)
  THEN SendAwait([ctx EXCEPT !.collected_info.amount = ParseFloat(prompt)], "recipient")
  ELSE SendErrorResponse(ctx)

SendFungibleExecute(prompt, ctx, o) ==
  LET info == ctx.collected_info
  IN IF Falsy(info.accountId) THEN Shared(SendErrorResponse(ctx), ctx)
     ELSE IF Falsy(info.tokenId)
     THEN Shared(requestTransferInfo(ctx, prompt), ctx)
     ELSE IF Falsy(info.amount) \/ Falsy(info.recipient)
     THEN Returned(requestTransferInfo(ctx, prompt), ctx)
     ELSE IF Falsy(info.password)
     THEN Shared(Envelope("DELEGATING", <<"send:need-password">>, <<"send:loading">>,
                            Action("DELEGATE",
                                   ObjectPayload(Task(SecurityAgent,
                                                      "Request password for token transfer authorization."))),
                            WithStatus(ctx, "delegating",
                                       <<"SendFungibleAgent delegating to SecurityAgent for password.">>)),
                   ctx)
     ELSE IF o.ok
     THEN Shared(Envelope("COMPLETE", <<"llm:send-speech">>, <<"llm:send-ui">>, CompleteGoal,
                            WithStatus(ctx, "complete",
                                       <<"SendFungibleAgent successfully transferred tokens.">>)),
                   ctx)
     ELSE Shared(SendErrorResponse(ctx), ctx)

(***************************************************************************)
(* utility/memoryAgent.ts.  The Reasoner turns the request into a command  *)
(* for the client's storage; the worker passes the Reasoner's action on as *)
(* the action of its envelope.  The oracle is the outcome of the Reasoner  *)
(* call and of parsing its answer.                                         *)
(***************************************************************************)
UpdateLongTermMemory ==
  Action("UPDATE_LONG_TERM_MEMORY",
         ObjectPayload([operation |-> "set", key |-> "spendingGoal", value |-> "save more"]))

MemoryExecute(prompt, ctx, o) ==
  IF o.ok
  THEN Shared(Envelope("COMPLETE", <<"llm:memory-speech">>, <<"llm:memory-ui">>,
                       UpdateLongTermMemory,
                       WithStatus(ctx, "complete", <<"MemoryAgent processed", "set">>)), ctx)
  ELSE Shared(Envelope("ERROR", <<"memory:trouble">>, <<"memory:error-ui">>, CompleteGoal,
                       WithStatus(ctx, "failed", <<"MemoryAgent failed">>)), ctx)

(***************************************************************************)
(* agentUtils.ts: callAgent.  Loading a module that does not exist and a   *)
(* throwing execute both end in the catch block, which builds the error    *)
(* envelope from the caller's context object.                              *)
(***************************************************************************)
Execute(agentName, prompt, ctx, o) ==
  CASE agentName = GeneralAgent -> GeneralExecute(prompt, ctx, o)
    [] agentName = OnboardingAgent -> OnboardingExecute(prompt, ctx, o)
    [] agentName = CreateAccountAgent -> CreateAccountExecute(prompt, ctx, o)
    [] agentName = SendFungibleAgent -> SendFungibleExecute(prompt, ctx, o)
    [] agentName = MemoryAgent -> MemoryExecute(prompt, ctx, o)
    [] OTHER -> Thrown(ctx)

\* a catch block that marks the context failed without a history note
AgentErrorEnvelopeNoNote(agentName, ctx) ==
  Envelope("ERROR", <<"callAgent:apologies">>, <<"callAgent:error-ui", agentName>>,
           CompleteGoal, [ctx EXCEPT !.status = "failed"])

AgentErrorEnvelope(agentName, ctx) ==
  Envelope("ERROR", <<"callAgent:apologies">>, <<"callAgent:error-ui", agentName>>,
           CompleteGoal,
           WithStatus(ctx, "failed", <<"Agent failed to execute", agentName>>))

callAgent(agentName, prompt, ctx, o) ==
  LET out == IF agentName \in Loadable THEN Execute(agentName, prompt, ctx, o)
             ELSE Thrown(ctx)
  IN IF out.thrown
     THEN Shared(AgentErrorEnvelope(agentName, out.ctxAfter), out.ctxAfter)
     ELSE out

(***************************************************************************)
(* The inputs of the model: what the user types or clicks, and what the    *)
(* Reasoner answers when the Planning Worker asks for a plan.              *)
(***************************************************************************)
FreeText == {"", "hi"}

\* the payloads of the buttons of the UI the page is showing
Buttons(env) ==
  IF env = NoEnvelope THEN {}
  ELSE IF env.ui = <<"onboarding:choice-ui">>
  THEN {"create_new_account", "provide_existing_account"}
  ELSE IF env.ui = <<"createAccount:keys-ui">> THEN {"creation_confirmed"}
  ELSE {}

\* what the new user of the "guided" scenario types after the n-th request: a
\* different non-empty text every time
GuidedReplies == <<"reply-1", "reply-2", "reply-3", "reply-4", "reply-5", "reply-6">>
GuidedReply(n) == IF n \in 1..Len(GuidedReplies) THEN GuidedReplies[n] ELSE "hi"

Prompts ==
  FreeText \cup {"create_new_account", "provide_existing_account", "creation_confirmed"}
    \cup {GuidedReplies[n] : n \in 1..Len(GuidedReplies)}
TaskPrompt == "task prompt"
TaskAgents == {SendFungibleAgent, OnboardingAgent, TypoAgent}

RECURSIVE TaskLists(_)
TaskLists(n) ==
  IF n = 0 THEN {<< >>}
  ELSE TaskLists(n - 1) \cup
       {Append(ts, Task(a, TaskPrompt)) : ts \in {l \in TaskLists(n - 1) : Len(l) = n - 1},
                                          a \in TaskAgents}

PlanActions ==
  {CompleteGoal, Action("SIMPLE_RESPONSE", NoPayload),
   Action("DELEGATE", NoPayload), Action("DELEGATE_PARALLEL", NoPayload)}
  \cup {Action("DELEGATE", ObjectPayload(Task(a, TaskPrompt))) : a \in TaskAgents \cup {GeneralAgent, MemoryAgent}}
  \cup {Action("DELEGATE_PARALLEL", ArrayPayload(ts)) : ts \in TaskLists(MaxTasks)}
  \cup {Action("DELEGATE_PARALLEL", ObjectPayload(Task(SendFungibleAgent, TaskPrompt)))}

Ok(b) == [ok |-> b, action |-> CompleteGoal]

\* The outcomes of the external calls a worker makes during one execute().
Oracles(agentName, ctx) ==
  CASE agentName = GeneralAgent /\ ctx.collected_info.specialist_results = << >> ->
         {Ok(FALSE)} \cup {[ok |-> TRUE, action |-> a] : a \in PlanActions}
    [] agentName = GeneralAgent /\ ctx.collected_info.specialist_results # << >> ->
         {Ok(TRUE), Ok(FALSE)}
    [] agentName = CreateAccountAgent -> {Ok(TRUE), Ok(FALSE)}
    [] agentName = SendFungibleAgent -> {Ok(TRUE), Ok(FALSE)}
    [] agentName = MemoryAgent -> {Ok(TRUE), Ok(FALSE)}
    [] OTHER -> {Ok(TRUE)}

(***************************************************************************)
(* JSON.stringify / JSON.parse of the context between server and page:     *)
(* NaN is written as null; keys holding undefined are dropped, which reads *)
(* back as undefined.                                                      *)
(***************************************************************************)
JsonInfo(info) == [k \in InfoKeys |-> IF k = "amount" /\ info[k] = "NaN" THEN NullV ELSE info[k]]
JsonCtx(ctx) == IF IsNull(ctx) THEN ctx ELSE [ctx EXCEPT !.collected_info = JsonInfo(@)]

(***************************************************************************)
(* app/page.tsx: the context a returning user starts with.                 *)
(***************************************************************************)
RestoredContext ==
  [ goal |-> NullV, status |-> "complete",
    collected_info |-> [EmptyInfo EXCEPT !.name = "Alice", !.accountId = "0.0.1234"],
    call_stack |-> << >>,
    history |-> << <<"Session restored.">> >> ]

(***************************************************************************)
(* State.                                                                  *)
(***************************************************************************)
VARIABLES
  version,     \* which router.ts is deployed: "V2" (single-shot) or "V3" (recursive)
  scenario,    \* the user: "free" types anything at any time, "guided" is a new user
               \* who opens the page and then answers every question
  turn,        \* number of requests sent so far
  clientCtx,   \* page.tsx: the context state of the page
  lastResp,    \* the envelope the page received last
  pc,          \* position of the running turn
  reqPrompt,   \* routeRequest: prompt
  reqCtx,      \* routeRequest: context (the request's context object)
  call,        \* the callAgent the router is awaiting
  resp,        \* agentResponse / the envelope about to be returned
  tasks,       \* the batch: one entry per task, in task-list order
  shareReq,    \* agentResponse.context.collected_info is the request's collected_info object
  rounds,      \* number of resume steps of this turn
  invoked,     \* the callAgent invocations of this turn, in order
  failure,     \* some invocation of this turn failed
  fanOut,      \* agentResponse.context as it was when the running batch was started
  answeredBy,  \* the worker whose envelope the router returned last ("" = none)
  discarded,   \* the task envelopes dropped in the current goal because a sibling task
               \* paused, each with the turn in which it was dropped
  failedWorkers, \* the workers whose invocation failed in this turn
  reqLtm       \* route.ts: longTermMemory of the request body (Undef = not supplied)

vars == <<version, scenario, turn, clientCtx, lastResp, pc, reqPrompt, reqCtx, call, resp,
          tasks, shareReq, rounds, invoked, failure, fanOut, answeredBy,
          discarded, failedWorkers, reqLtm>>

NoCall == [agent |-> "", prompt |-> "", ctx |-> NullCtx, mode |-> "", alias |-> FALSE]
Call(a, p, c, m, al) == [agent |-> a, prompt |-> p, ctx |-> c, mode |-> m, alias |-> al]

InitCommon ==
  /\ turn = 0
  /\ lastResp = NoEnvelope
  /\ pc = "idle"
  /\ reqPrompt = ""
  /\ reqCtx = NullCtx
  /\ call = NoCall
  /\ resp = NoEnvelope
  /\ tasks = << >>
  /\ shareReq = FALSE
  /\ rounds = 0
  /\ invoked = << >>
  /\ failure = FALSE
  /\ fanOut = NullCtx
  /\ answeredBy = ""
  /\ discarded = << >>
  /\ failedWorkers = {}
  /\ reqLtm = Undef

InitFree == scenario = "free" /\ clientCtx \in {NullCtx, RestoredContext} /\ InitCommon

Init == version \in {"V2", "V3"} /\ InitFree
InitV3 == version = "V3" /\ InitFree
InitV2 == version = "V2" /\ InitFree
InitMemory == version \in {"V2", "V3"} /\ scenario = "memory"
              /\ clientCtx \in {NullCtx, RestoredContext} /\ InitCommon
InitGuided == version = "V3" /\ scenario = "guided" /\ clientCtx = NullCtx /\ InitCommon

(***************************************************************************)
(* page.tsx handleSubmit -> app/api/agent/route.ts POST ->                 *)
(* processUserPrompt -> routeRequest: a new turn starts with the prompt    *)
(* and the context the page holds.                                         *)
(***************************************************************************)
UserMaySend(p) ==
  IF scenario \in {"free", "memory"}
  THEN turn < MaxTurns /\ p \in FreeText \cup Buttons(lastResp)
  ELSE /\ turn < MaxGuidedTurns
       /\ IF turn = 0 THEN p = "" ELSE p \in {GuidedReply(turn)} \cup Buttons(lastResp)

\* app/api/agent/route.ts POST: the longTermMemory of the request body is written
\* into the collected_info of the request's context before processUserPrompt is called
InjectMemory(ctx, ltm) ==
  IF ~IsNull(ctx) /\ ~Falsy(ltm)
  THEN [ctx EXCEPT !.collected_info.long_term_memory = ltm]
  ELSE ctx

\* page.tsx posts { prompt, context } only; the client of the "memory" scenario adds
\* its longTermMemory to the body of every request, and its memory changes from one
\* request to the next
SuppliedMemory ==
  IF scenario = "memory" THEN {IF turn % 2 = 0 THEN "memory-1" ELSE "memory-2"} ELSE {Undef}

ClientSubmit(p) ==
  /\ pc = "idle"
  /\ UserMaySend(p)
  /\ turn' = turn + 1
  /\ reqPrompt' = p
  /\ \E ltm \in SuppliedMemory :
       /\ reqLtm' = ltm
       /\ reqCtx' = InjectMemory(clientCtx, ltm)
  /\ failedWorkers' = {}
  /\ pc' = "route"
  /\ call' = NoCall
  /\ resp' = NoEnvelope
  /\ tasks' = << >>
  /\ shareReq' = FALSE
  /\ rounds' = 0
  /\ invoked' = << >>
  /\ failure' = FALSE
  /\ fanOut' = NullCtx
  /\ UNCHANGED <<version, scenario, clientCtx, lastResp, answeredBy, discarded>>

(***************************************************************************)
(* router.ts: routeRequest up to its first callAgent.                      *)
(*   V3 (part_013) lines 24-52, V2 lines 24-52.                            *)
(* V2 reads context.collected_info of a null context on the new-request    *)
(* path, which throws; V3 uses context?.collected_info.                    *)
(***************************************************************************)
NeedsOnboarding(ctx) == IsNull(ctx) \/ Falsy(ctx.collected_info.accountId)

\* context.call_stack[context.call_stack.length - 1]
ActiveAgentName(ctx) == IF ctx.call_stack = << >> THEN UndefinedAgent ELSE Last(ctx.call_stack)

\* a router that also resumes the active worker of a goal that has failed
RouteDecisionResumeFailed(ver, prompt, ctx) ==
  IF NeedsOnboarding(ctx) /\ prompt = ""
  THEN Call(OnboardingAgent, "Begin Onboarding",
            initializeContext(ver, OnboardingAgent, "Begin Onboarding", EmptyInfo),
            "return", FALSE)
  ELSE IF ~IsNull(ctx) /\ ctx.status \in {"awaiting_user_input", "failed"}
  THEN Call(ActiveAgentName(ctx), prompt, ctx,
            IF ver = "V2" THEN "return" ELSE "process", TRUE)
  ELSE IF IsNull(ctx)
  THEN IF ver = "V2" THEN Call("", prompt, NullCtx, "throw", FALSE)
       ELSE Call(GeneralAgent, prompt,
                 initializeContext(ver, GeneralAgent, prompt, EmptyInfo), "process", FALSE)
  ELSE Call(GeneralAgent, prompt,
            initializeContext(ver, GeneralAgent, prompt, ctx.collected_info),
            "process", FALSE)

RouteDecision(ver, prompt, ctx) ==
  IF NeedsOnboarding(ctx) /\ prompt = ""
  THEN Call(OnboardingAgent, "Begin Onboarding",
            initializeContext(ver, OnboardingAgent, "Begin Onboarding", EmptyInfo),
            "return", FALSE)
  ELSE IF ~IsNull(ctx) /\ ctx.status = "awaiting_user_input"
  THEN Call(ActiveAgentName(ctx), prompt, ctx,
            IF ver = "V2" THEN "return" ELSE "process", TRUE)
  ELSE IF IsNull(ctx)
  THEN IF ver = "V2" THEN Call("", prompt, NullCtx, "throw", FALSE)
       ELSE Call(GeneralAgent, prompt,
                 initializeContext(ver, GeneralAgent, prompt, EmptyInfo), "process", FALSE)
  ELSE Call(GeneralAgent, prompt,
            initializeContext(ver, GeneralAgent, prompt, ctx.collected_info),
            "process", FALSE)

Route ==
  /\ pc = "route"
  /\ LET c == RouteDecision(version, reqPrompt, reqCtx)
     IN /\ call' = c
        /\ pc' = IF c.mode = "throw" THEN "threw" ELSE "call"
        /\ failure' = (failure \/ c.mode = "throw")
        \* a request that does not continue a paused goal starts a new goal
        /\ discarded' = IF c.alias THEN discarded ELSE << >>
  /\ UNCHANGED <<version, scenario, turn, clientCtx, lastResp, reqPrompt, reqCtx, resp,
                 tasks, shareReq, rounds, invoked, fanOut, answeredBy,
                 failedWorkers, reqLtm>>

(***************************************************************************)
(* The awaited callAgent of the router returns.  On the continuation path  *)
(* the worker receives the request's own context object.                   *)
(***************************************************************************)
\* ok: whether the external calls the worker made during this execute() succeeded
Invocation(a, p, c, ok) == [agent |-> a, prompt |-> p, ctx |-> c, ok |-> ok]

CallReturn ==
  /\ pc = "call"
  /\ \E o \in Oracles(call.agent, call.ctx) :
       LET out == callAgent(call.agent, call.prompt, call.ctx, o)
       IN /\ resp' = out.resp
          /\ reqCtx' = IF call.alias THEN out.ctxAfter ELSE reqCtx
          /\ shareReq' = (call.alias /\ out.aliased)
          /\ failure' = (failure \/ out.resp.context.status = "failed")
          /\ failedWorkers' = IF out.resp.context.status = "failed"
                              THEN failedWorkers \cup {call.agent} ELSE failedWorkers
          /\ invoked' = Append(invoked, Invocation(call.agent, call.prompt, call.ctx, o.ok))
  /\ pc' = IF call.mode = "return" THEN "done" ELSE "process"
  /\ answeredBy' = call.agent
  /\ call' = NoCall
  /\ UNCHANGED <<version, scenario, turn, clientCtx, lastResp, reqPrompt, tasks, rounds, fanOut,
                 discarded, reqLtm>>

(***************************************************************************)
(* router.ts: processAgentResponse lines 65-82 and 116-118 (V3), the same  *)
(* code inline in routeRequest lines 56-72 and 89-91 (V2).                 *)
(***************************************************************************)
\* a loop that treats every action other than COMPLETE_GOAL as a delegation
IsDelegationUnlessComplete(env) == env.action.type # "COMPLETE_GOAL"

IsDelegation(env) == env.action.type \in {"DELEGATE", "DELEGATE_PARALLEL"}

\* tasks = DELEGATE ? [payload] : payload, then what tasks.map finds in it
NormalizeTasks(action) ==
  LET pl == action.payload
  IN IF action.type = "DELEGATE"
     THEN CASE pl.kind = "object" -> [kind |-> "list", items |-> pl.items]
            [] pl.kind = "array" -> [kind |-> "list", items |-> <<Task(UndefinedAgent, Undef)>>]
            [] OTHER -> [kind |-> "throw", items |-> << >>]
     ELSE CASE pl.kind = "array" -> [kind |-> "list", items |-> pl.items]
            [] pl.kind = "object" -> [kind |-> "throw", items |-> << >>]
            [] OTHER -> [kind |-> "list", items |-> << >>]

\* the envelope returned for a delegation without tasks
\* a guard that returns the envelope of an empty delegation as it is
EmptyDelegationKeepAction(ver, env) == env

EmptyDelegation(ver, env) ==
  IF ver = "V2" THEN [env EXCEPT !.action = CompleteGoal]
  ELSE [env EXCEPT !.status = "COMPLETE", !.action = CompleteGoal]

NewTask(t) == [agent |-> t.agent, prompt |-> t.prompt, done |-> FALSE,
               ctxIn |-> NullCtx, result |-> NoEnvelope, aliased |-> FALSE]

Process ==
  /\ pc = "process"
  /\ LET nt == NormalizeTasks(resp.action)
     IN IF ~IsDelegation(resp)
        THEN /\ pc' = "done"
             /\ UNCHANGED <<resp, tasks, failure, fanOut>>
        ELSE IF nt.kind = "throw"
        THEN /\ pc' = "threw"
             /\ failure' = TRUE
             /\ UNCHANGED <<resp, tasks, fanOut>>
        ELSE IF nt.items = << >>
        THEN /\ pc' = "done"
             /\ resp' = EmptyDelegation(version, resp)
             /\ UNCHANGED <<tasks, failure, fanOut>>
        ELSE /\ pc' = "batch"
             /\ tasks' = [i \in 1..Len(nt.items) |-> NewTask(nt.items[i])]
             /\ fanOut' = resp.context
             /\ UNCHANGED <<resp, failure>>
  /\ UNCHANGED <<version, scenario, turn, clientCtx, lastResp, reqPrompt, reqCtx, call, shareReq,
                 rounds, invoked, answeredBy,
                 discarded, failedWorkers, reqLtm>>

(***************************************************************************)
(* One task of the batch: callAgent(task.agent, task.prompt,               *)
(* agentResponse.context).  Every task receives the same context object,   *)
(* resp.context; the tasks run in any order.                               *)
(***************************************************************************)
\* a task runner that follows a task's own DELEGATE action: the worker the action
\* names is invoked at once and its envelope is kept as the task's result
TaskRunDispatchesNested(i) ==
  /\ pc = "batch"
  /\ i \in 1..Len(tasks)
  /\ ~tasks[i].done
  /\ \E o \in Oracles(tasks[i].agent, resp.context) :
       LET first == callAgent(tasks[i].agent, tasks[i].prompt, resp.context, o)
           nested == /\ first.resp.action.type = "DELEGATE"
                     /\ first.resp.action.payload.kind = "object"
           named == first.resp.action.payload.items[1]
           out == IF nested
                  THEN callAgent(named.agent, named.prompt, first.ctxAfter, Ok(TRUE))
                  ELSE first
       IN /\ tasks' = [tasks EXCEPT ![i] = [@ EXCEPT !.done = TRUE, !.ctxIn = resp.context,
                                                     !.result = out.resp,
                                                     !.aliased = out.aliased]]
          /\ resp' = [resp EXCEPT !.context = out.ctxAfter]
          /\ reqCtx' = IF shareReq
                       THEN [reqCtx EXCEPT !.collected_info = out.ctxAfter.collected_info]
                       ELSE reqCtx
          /\ failure' = (failure \/ out.resp.context.status = "failed")
          /\ failedWorkers' = IF out.resp.context.status = "failed"
                              THEN failedWorkers \cup {tasks[i].agent} ELSE failedWorkers
          /\ invoked' = IF nested
                        THEN invoked \o <<Invocation(tasks[i].agent, tasks[i].prompt,
                                                      resp.context, o.ok),
                                           Invocation(named.agent, named.prompt,
                                                      first.ctxAfter, TRUE)>>
                        ELSE Append(invoked, Invocation(tasks[i].agent, tasks[i].prompt,
                                                        resp.context, o.ok))
  /\ UNCHANGED <<version, scenario, turn, clientCtx, lastResp, pc, reqPrompt, call, shareReq, rounds,
                 fanOut, answeredBy, discarded, reqLtm>>

TaskRun(i) ==
  /\ pc = "batch"
  /\ i \in 1..Len(tasks)
  /\ ~tasks[i].done
  /\ \E o \in Oracles(tasks[i].agent, resp.context) :
       LET out == callAgent(tasks[i].agent, tasks[i].prompt, resp.context, o)
       IN /\ tasks' = [tasks EXCEPT ![i] = [@ EXCEPT !.done = TRUE, !.ctxIn = resp.context,
                                                     !.result = out.resp,
                                                     !.aliased = out.aliased]]
          /\ resp' = [resp EXCEPT !.context = out.ctxAfter]
          /\ reqCtx' = IF shareReq
                       THEN [reqCtx EXCEPT !.collected_info = out.ctxAfter.collected_info]
                       ELSE reqCtx
          /\ failure' = (failure \/ out.resp.context.status = "failed")
          /\ failedWorkers' = IF out.resp.context.status = "failed"
                              THEN failedWorkers \cup {tasks[i].agent} ELSE failedWorkers
          /\ invoked' = Append(invoked, Invocation(tasks[i].agent, tasks[i].prompt,
                                                   resp.context, o.ok))
  /\ UNCHANGED <<version, scenario, turn, clientCtx, lastResp, pc, reqPrompt, call, shareReq, rounds,
                 fanOut, answeredBy, discarded, reqLtm>>

(***************************************************************************)
(* await Promise.all(specialistPromises) and what follows it.              *)
(*   V3 lines 83-113: pause check, then the delegator is resumed and its   *)
(*                    answer is processed again.                           *)
(*   V2 lines 73-86:  no pause check; general/generalAgent is called for   *)
(*                    synthesis and its answer is returned.                *)
(***************************************************************************)
\* a result whose context kept the batch's collected_info object shows its final content
Resolve(t) ==
  IF t.aliased
  THEN [t.result EXCEPT !.context.collected_info = resp.context.collected_info]
  ELSE t.result

\* a router that keeps the completed results it dropped at a pause and hands them
\* over with the results of the next batch
SpecialistResultsWithDropped ==
  [i \in 1..Len(tasks) |-> Resolve(tasks[i])]
    \o SelectSeq([n \in 1..Len(discarded) |-> discarded[n].env],
                 LAMBDA r : r.status # "AWAITING_INPUT")

SpecialistResults == [i \in 1..Len(tasks) |-> Resolve(tasks[i])]

\* specialistResults.find(res => res.status === 'AWAITING_INPUT')
PausingIndex(results) ==
  LET ps == {i \in 1..Len(results) : results[i].status = "AWAITING_INPUT"}
  IN IF ps = {} THEN 0 ELSE CHOOSE i \in ps : \A j \in ps : i <= j

ResumeNote(ver) ==
  IF ver = "V2" THEN <<"All specialist tasks completed. Preparing for synthesis.">>
  ELSE <<"All specialist tasks completed. Preparing to resume.">>

\* a resume step that stores the results and leaves the delegator's status as it is
ResumeContextKeepStatus(ver, ctx, results) ==
  [ctx EXCEPT !.collected_info.specialist_results = results,
              !.history = Append(@, ResumeNote(ver))]

ResumeContext(ver, ctx, results) ==
  [ctx EXCEPT !.status = "pending",
              !.collected_info.specialist_results = results,
              !.history = Append(@, ResumeNote(ver))]

\* a resume step that calls the worker of the first task instead of the delegator
ResumeCallFirstTask(ver, env, prompt, results) ==
  Call(tasks[1].agent, prompt, ResumeContext(ver, env.context, results),
       IF ver = "V2" THEN "return" ELSE "process", FALSE)

ResumeCall(ver, env, prompt, results) ==
  Call(IF ver = "V2" THEN GeneralAgent ELSE ActiveAgentName(env.context),
       prompt, ResumeContext(ver, env.context, results),
       IF ver = "V2" THEN "return" ELSE "process", FALSE)

PausePreempts(ver, results) == ver # "V2" /\ PausingIndex(results) # 0

\* a router that goes on as soon as one task has returned (Promise.race in place of
\* Promise.all), with the results it has so far
CollectFirstReturned ==
  /\ pc = "batch"
  /\ \E i \in 1..Len(tasks) : tasks[i].done
  /\ LET returned == SelectSeq(tasks, LAMBDA t : t.done)
         results == [i \in 1..Len(returned) |-> Resolve(returned[i])]
     IN IF PausePreempts(version, results)
        THEN /\ resp' = results[PausingIndex(results)]
             /\ answeredBy' = returned[PausingIndex(results)].agent
             /\ discarded' = discarded \o
                   [j \in 1..(Len(results) - 1) |->
                      [turn |-> turn,
                       env |-> results[IF j < PausingIndex(results) THEN j ELSE j + 1]]]
             /\ pc' = "done"
             /\ UNCHANGED <<call, rounds>>
        ELSE /\ rounds < MaxRounds
             /\ call' = ResumeCall(version, resp, reqPrompt, results)
             /\ rounds' = rounds + 1
             /\ pc' = "call"
             /\ UNCHANGED <<resp, answeredBy, discarded>>
  /\ UNCHANGED <<version, scenario, turn, clientCtx, lastResp, reqPrompt, reqCtx, tasks, shareReq,
                 invoked, failure, fanOut, failedWorkers, reqLtm>>

Collect ==
  /\ pc = "batch"
  /\ \A i \in 1..Len(tasks) : tasks[i].done
  /\ LET results == SpecialistResults
     IN IF PausePreempts(version, results)
        THEN /\ resp' = results[PausingIndex(results)]
             /\ answeredBy' = tasks[PausingIndex(results)].agent
             /\ discarded' = discarded \o
                   [j \in 1..(Len(results) - 1) |->
                      [turn |-> turn,
                       env |-> results[IF j < PausingIndex(results) THEN j ELSE j + 1]]]
             /\ pc' = "done"
             /\ UNCHANGED <<call, rounds>>
        ELSE /\ rounds < MaxRounds
             /\ call' = ResumeCall(version, resp, reqPrompt, results)
             /\ rounds' = rounds + 1
             /\ pc' = "call"
             /\ UNCHANGED <<resp, answeredBy, discarded>>
  /\ UNCHANGED <<version, scenario, turn, clientCtx, lastResp, reqPrompt, reqCtx, tasks, shareReq,
                 invoked, failure, fanOut, failedWorkers, reqLtm>>

(***************************************************************************)
(* geminiServices.ts: processUserPrompt.  The catch block is the last      *)
(* safety net for an error thrown by routeRequest.                         *)
(***************************************************************************)
\* a safety net that answers with a fresh state instead of the request's
CriticalErrorEnvelopeFreshState(ctx) ==
  Envelope("ERROR", <<"critical:circuits">>, <<"critical:system-error">>, CompleteGoal,
           IF IsNull(ctx) THEN NullCtx
           ELSE [ctx EXCEPT !.status = "failed", !.collected_info = EmptyInfo])

CriticalErrorEnvelope(ctx) ==
  Envelope("ERROR", <<"critical:circuits">>, <<"critical:system-error">>, CompleteGoal,
           IF IsNull(ctx) THEN NullCtx ELSE [ctx EXCEPT !.status = "failed"])

Catch ==
  /\ pc = "threw"
  /\ resp' = CriticalErrorEnvelope(reqCtx)
  /\ pc' = "done"
  /\ answeredBy' = ""
  /\ UNCHANGED <<version, scenario, turn, clientCtx, lastResp, reqPrompt, reqCtx, call, tasks,
                 shareReq, rounds, invoked, failure, fanOut,
                 discarded, failedWorkers, reqLtm>>

(***************************************************************************)
(* The envelope goes back as JSON; page.tsx keeps uarpResponse.context as  *)
(* the context of the next request.                                        *)
(***************************************************************************)
Respond ==
  /\ pc = "done"
  /\ lastResp' = [resp EXCEPT !.context = JsonCtx(@)]
  /\ clientCtx' = JsonCtx(resp.context)
  /\ pc' = "idle"
  /\ reqPrompt' = ""
  /\ reqCtx' = NullCtx
  /\ call' = NoCall
  /\ resp' = NoEnvelope
  /\ tasks' = << >>
  /\ shareReq' = FALSE
  /\ rounds' = 0
  /\ invoked' = << >>
  /\ failure' = FALSE
  /\ fanOut' = NullCtx
  /\ failedWorkers' = {}
  /\ reqLtm' = Undef
  /\ UNCHANGED <<version, scenario, turn, answeredBy, discarded>>

Next ==
  \/ \E p \in Prompts : ClientSubmit(p)
  \/ Route
  \/ CallReturn
  \/ Process
  \/ \E i \in 1..MaxTasks : TaskRun(i)
  \/ Collect
  \/ Catch
  \/ Respond

Spec == Init /\ [][Next]_vars
SpecV3 == InitV3 /\ [][Next]_vars
SpecV2 == InitV2 /\ [][Next]_vars
SpecMemory == InitMemory /\ [][Next]_vars

(***************************************************************************)
(* token/sendFungibleAgent on its own: a caller that invokes the worker    *)
(* for an onboarded user and then re-invokes it on the state it returned,  *)
(* each time with the user's reply.  invoked is the log of the session.    *)
(***************************************************************************)
SendReplies == {"0.0.5005", "5", "0.0.7007"}

InitSend ==
  /\ version \in {"V2", "V3"}
  /\ scenario = "send"
  /\ clientCtx \in {RestoredContext, [RestoredContext EXCEPT !.collected_info.password = "secret"]}
  /\ InitCommon

\* the state a task of the Planning Worker's batch receives
SendStart ==
  WithStatus(initializeContext(version, GeneralAgent, "send tokens", clientCtx.collected_info),
             "delegating", <<"GeneralAgent created a plan", "DELEGATE">>)

SendStep(p) ==
  /\ scenario = "send"
  /\ turn < MaxSendReplies
  /\ LET ctx == IF resp = NoEnvelope THEN SendStart ELSE resp.context
     IN \E o \in Oracles(SendFungibleAgent, ctx) :
          /\ resp' = callAgent(SendFungibleAgent, p, ctx, o).resp
          /\ invoked' = Append(invoked, Invocation(SendFungibleAgent, p, ctx, o.ok))
  /\ reqPrompt' = p
  /\ turn' = turn + 1
  /\ answeredBy' = SendFungibleAgent
  /\ UNCHANGED <<version, scenario, clientCtx, lastResp, pc, reqCtx, call, tasks, shareReq,
                 rounds, failure, fanOut, discarded, failedWorkers, reqLtm>>

NextSend == \E p \in SendReplies : SendStep(p)

SpecSend == InitSend /\ [][NextSend]_vars

\* The guided user reaches no throwing path of the router: the request context is
\* never null after the first load and only the onboarding worker delegates, with a
\* well-formed payload, so Catch is never enabled.
NextGuided ==
  \/ \E p \in Prompts : ClientSubmit(p)
  \/ Route
  \/ CallReturn
  \/ Process
  \/ \E i \in 1..MaxTasks : TaskRun(i)
  \/ Collect
  \/ Respond

SpecGuided == InitGuided /\ [][NextGuided]_vars

(***************************************************************************)
(*                         Properties of the router                        *)
(* While a turn is being served (pc # "idle") clientCtx is the context the *)
(* request carried, reqPrompt its prompt, and invoked the workers called   *)
(* so far, each with the prompt and the context it was given.              *)
(***************************************************************************)

\* C1 (pause preemption): when every task of a batch has returned and at least one
\* result has status AWAITING_INPUT, the next step of the router ends the loop with
\* the envelope of a paused task as its output, and invokes no worker (the
\* delegating worker is not resumed).
C1_PausePreemption ==
  [][ ( /\ pc = "batch"
        /\ \A i \in 1..Len(tasks) : tasks[i].done
        /\ \E i \in 1..Len(tasks) : Resolve(tasks[i]).status = "AWAITING_INPUT" )
      => ( /\ pc' = "done"
           /\ invoked' = invoked
           /\ call' = call
           /\ \E i \in 1..Len(tasks) :
                /\ Resolve(tasks[i]).status = "AWAITING_INPUT"
                /\ resp' = Resolve(tasks[i]) ) ]_vars

\* C2 (bootstrap invariant): in a turn whose request context is null or has no
\* accountId, a worker other than the bootstrap worker is invoked only after the
\* bootstrap worker, and never with a context that has no accountId.
C2_BootstrapFirst ==
  (pc # "idle" /\ (clientCtx = NullCtx \/ clientCtx.collected_info.accountId \in {Undef, NullV, ""}))
    => \A i \in 1..Len(invoked) :
         (invoked[i].agent \in Loadable \ {OnboardingAgent})
           => /\ \E j \in 1..(i - 1) : invoked[j].agent = OnboardingAgent
              /\ invoked[i].ctx.collected_info.accountId \notin {Undef, NullV, ""}

C4_Sanitization ==
  (pc = "call" /\ invoked = << >> /\ rounds = 0 /\ ~call.alias /\ call.agent = GeneralAgent)
    => LET S == IF clientCtx = NullCtx THEN EmptyInfo ELSE clientCtx.collected_info
           c == call.ctx
       IN /\ c.status = "pending"
          /\ c.call_stack = <<GeneralAgent>>
          /\ c.collected_info.originalPrompt = reqPrompt
          /\ \A k \in {"name", "accountId", "long_term_memory"} : c.collected_info[k] = S[k]
          /\ \A k \in {"privateKey", "password"} : c.collected_info[k] \in {S[k], Undef}
          /\ \A k \in InfoKeys \ {"name", "accountId", "long_term_memory", "privateKey",
                                  "password", "originalPrompt"} :
               c.collected_info[k] = Absent(k)

\* C4 witness: a new goal is started from a prior context that holds the results of
\* an earlier delegation and a name, and the new context keeps the name only.
C4_Witness ==
  /\ pc = "call" /\ invoked = << >> /\ rounds = 0 /\ ~call.alias /\ call.agent = GeneralAgent
  /\ clientCtx # NullCtx
  /\ clientCtx.collected_info.specialist_results # << >>
  /\ clientCtx.collected_info.name # Undef
  /\ call.ctx.collected_info.name = clientCtx.collected_info.name

\* C5 (terminal action closure): an envelope whose action is neither DELEGATE nor
\* DELEGATE_PARALLEL leaves the delegation loop unchanged, no worker is called for
\* it, and the envelope that left the loop is again not a delegation, so the loop
\* applied to its own output returns it once more.
C5_TerminalClosure ==
  [][ (pc = "process" /\ resp.action.type \notin {"DELEGATE", "DELEGATE_PARALLEL"})
      => ( /\ pc' = "done"
           /\ resp' = resp
           /\ invoked' = invoked
           /\ call' = call
           /\ tasks' = tasks
           /\ resp'.action.type \notin {"DELEGATE", "DELEGATE_PARALLEL"} ) ]_vars

\* C5 witness: the recursive router has passed a worker's REQUEST_USER_INPUT
\* envelope through the loop on the continuation path.
C5_Witness ==
  /\ version = "V3"
  /\ pc = "done"
  /\ clientCtx # NullCtx
  /\ clientCtx.status = "awaiting_user_input"
  /\ Len(invoked) = 1
  /\ resp.action.type = "REQUEST_USER_INPUT"

\* C6 (depth bound): the router resumes a delegating worker at most 25 times in one
\* turn (25 is the maximum delegation depth the specification recommends).
C6_DepthBound == rounds <= 25

\* C7 (callAgent failure conversion): a task whose worker cannot be loaded yields an
\* envelope with status ERROR, action COMPLETE_GOAL and the context the task was
\* given, changed only in status (failed) and by one note appended to history.
C7_FailureConversion ==
  \A i \in 1..Len(tasks) :
    (tasks[i].done /\ tasks[i].agent \notin Loadable)
      => LET r == tasks[i].result
             c == tasks[i].ctxIn
         IN /\ r.status = "ERROR"
            /\ r.action = [type |-> "COMPLETE_GOAL", payload |-> NoPayload]
            /\ r.context = [c EXCEPT !.status = "failed", !.history = r.context.history]
            /\ Len(r.context.history) = Len(c.history) + 1
            /\ SubSeq(r.context.history, 1, Len(c.history)) = c.history

\* C7 witness: a task naming a worker that does not exist has returned.
C7_Witness ==
  /\ pc = "batch"
  /\ \E i \in 1..Len(tasks) : tasks[i].done /\ tasks[i].agent = TypoAgent
                                /\ tasks[i].result.status = "ERROR"

\* C8 (unknown worker in delegation): a turn in which a delegation named a worker
\* that does not exist ends with the standard error envelope: status ERROR, action
\* COMPLETE_GOAL, context status failed.
C8_UnknownWorkerFails ==
  (pc = "done" /\ \E i \in 1..Len(tasks) : tasks[i].agent \notin Loadable)
    => /\ resp.status = "ERROR"
       /\ resp.action.type = "COMPLETE_GOAL"
       /\ resp.context # NullCtx
       /\ resp.context.status = "failed"

\* C9 (single failure shape): a turn in which a failure occurred (a worker failed,
\* a worker could not be loaded, or the router threw) ends with an envelope whose
\* action is COMPLETE_GOAL and whose context has status failed.
C9_SingleFailureShape ==
  (pc = "done" /\ failure)
    => /\ resp.action.type = "COMPLETE_GOAL"
       /\ resp.context # NullCtx
       /\ resp.context.status = "failed"

\* C10 (fresh goal after failure): in a turn whose request context has status failed
\* or complete and an accountId, with a non-empty prompt, the first worker invoked is
\* the Planning Worker, with the turn's prompt and a new context: status pending,
\* call_stack holding only the Planning Worker, no result of an earlier delegation.
C10_FreshGoal ==
  ( /\ pc \notin {"idle", "route"}
    /\ clientCtx # NullCtx
    /\ clientCtx.status \in {"failed", "complete"}
    /\ clientCtx.collected_info.accountId \notin {Undef, NullV, ""}
    /\ reqPrompt # "" )
    => LET first == IF invoked = << >>
                    THEN [agent |-> call.agent, prompt |-> call.prompt, ctx |-> call.ctx]
                    ELSE invoked[1]
       IN /\ first.agent = GeneralAgent
          /\ first.prompt = reqPrompt
          /\ first.ctx.status = "pending"
          /\ first.ctx.call_stack = <<GeneralAgent>>
          /\ first.ctx.collected_info.specialist_results = << >>
          /\ first.ctx.collected_info.originalPrompt = reqPrompt
          /\ Len(first.ctx.history) = 1

\* C10 witness: a goal failed in the previous turn, and the turn after it has called
\* the Planning Worker.
C10_Witness ==
  /\ pc = "done"
  /\ clientCtx # NullCtx
  /\ clientCtx.status = "failed"
  /\ clientCtx.collected_info.accountId \notin {Undef, NullV, ""}
  /\ reqPrompt # ""
  /\ invoked # << >>
  /\ invoked[1].agent = GeneralAgent

\* C11 (awaiting_input is a leaf): once a worker of the turn (the routed worker, a
\* resumed delegator or a task of a batch) has returned an envelope with status
\* AWAITING_INPUT, the router's next step ends the loop with that envelope as its
\* output and invokes no worker; when every task of a batch has returned, this holds
\* for every task that returned AWAITING_INPUT.
C11_AwaitingLeaf ==
  [][ /\ (pc = "process" /\ resp.status = "AWAITING_INPUT")
           => (pc' = "done" /\ resp' = resp /\ invoked' = invoked /\ call' = call)
      /\ (pc = "batch" /\ \A i \in 1..Len(tasks) : tasks[i].done)
           => \A i \in 1..Len(tasks) :
                (Resolve(tasks[i]).status = "AWAITING_INPUT")
                  => (pc' = "done" /\ resp' = Resolve(tasks[i]) /\ invoked' = invoked
                      /\ call' = call) ]_vars

\* C12 (call_stack of an active state): every context the router builds, passes to a
\* worker, receives from a worker or returns to the page that has status pending,
\* awaiting_user_input or delegating has a non-empty call_stack.
C12_ActiveStackNonEmpty ==
  LET Active(c) == (c # NullCtx /\ c.status \in {"pending", "awaiting_user_input", "delegating"})
                     => c.call_stack # << >>
  IN /\ Active(clientCtx)
     /\ Active(reqCtx)
     /\ Active(call.ctx)
     /\ resp # NoEnvelope => Active(resp.context)
     /\ lastResp # NoEnvelope => Active(lastResp.context)
     /\ \A i \in 1..Len(invoked) : Active(invoked[i].ctx)
     /\ \A i \in 1..Len(tasks) : tasks[i].done => Active(tasks[i].result.context)

\* C12 witness: a turn that began from the restored session (status complete, empty
\* call_stack) ends with a context that awaits input and names a worker to resume.
C12_Witness ==
  /\ pc = "done"
  /\ clientCtx # NullCtx
  /\ clientCtx.call_stack = << >>
  /\ resp.context # NullCtx
  /\ resp.context.status = "awaiting_user_input"
  /\ resp.context.call_stack # << >>

\* C13 (resume the same worker): when the envelope the page received last has status
\* AWAITING_INPUT and the page sends the returned context back with the next prompt,
\* the first worker the router calls in that turn is the worker that returned that
\* envelope, also when that worker was a task of a delegation.
C13_ResumeSameWorker ==
  ( /\ pc = "call"
    /\ invoked = << >>
    /\ rounds = 0
    /\ lastResp # NoEnvelope
    /\ lastResp.status = "AWAITING_INPUT"
    /\ lastResp.action.type = "REQUEST_USER_INPUT" )
    => call.agent = answeredBy

\* C14 (batch isolation): every task of a batch is given exactly the context the
\* delegator returned when the batch was started, whatever the order in which the
\* tasks run: no task sees a collected_info write made by another task of the batch.
C14_BatchIsolation ==
  \A i \in 1..Len(tasks) : tasks[i].done => tasks[i].ctxIn = fanOut

\* C15 (copy-on-write at every hop): a worker invocation leaves the context object it
\* was given unchanged: after the routed worker returns, the request's context is as
\* it was sent, and after a task returns, the context of the delegator's envelope is
\* as it was before the task ran.
C15_CopyOnWrite ==
  [][ /\ (pc = "call" /\ call.alias /\ pc' # "call") => reqCtx' = reqCtx
      /\ (pc = "batch" /\ pc' = "batch") => resp'.context = resp.context ]_vars

\* C16 (Planning Worker phases, as claimed): the envelope the Planning Worker
\* returns when the router resumes it with the results of a batch has status
\* COMPLETE, action COMPLETE_GOAL and context status complete.
C16_SynthesisCompletes ==
  ( /\ pc \in {"process", "done"}
    /\ rounds >= 1
    /\ invoked # << >>
    /\ invoked[Len(invoked)].agent = GeneralAgent
    /\ invoked[Len(invoked)].ctx.collected_info.specialist_results # << >>
    /\ answeredBy = GeneralAgent )
    => /\ resp.status = "COMPLETE"
       /\ resp.action.type = "COMPLETE_GOAL"
       /\ resp.context.status = "complete"

\* C16 (Planning Worker phases, amended): the envelope the Planning Worker returns
\* when the router resumes it with the results of a batch is never a delegation: it
\* has status COMPLETE and action COMPLETE_GOAL, and its context is the context it
\* was given with one note added to history and status complete (the Reasoner
\* answered) or failed (the Reasoner call or the parsing of its answer failed).
C16_SynthesisTerminal ==
  ( /\ pc \in {"process", "done"}
    /\ rounds >= 1
    /\ invoked # << >>
    /\ invoked[Len(invoked)].agent = GeneralAgent
    /\ invoked[Len(invoked)].ctx.collected_info.specialist_results # << >>
    /\ answeredBy = GeneralAgent )
    => LET given == invoked[Len(invoked)].ctx
       IN /\ resp.status = "COMPLETE"
          /\ resp.action = [type |-> "COMPLETE_GOAL", payload |-> NoPayload]
          /\ resp.context.status \in {"complete", "failed"}
          /\ resp.context = [given EXCEPT !.status = resp.context.status,
                                          !.history = resp.context.history]
          /\ Len(resp.context.history) = Len(given.history) + 1
          /\ SubSeq(resp.context.history, 1, Len(given.history)) = given.history
          /\ (resp.context.status = "failed")
               = (resp.context.history[Len(resp.context.history)] = <<"GeneralAgent failed">>)

\* C16 witness: the Planning Worker was resumed with the results of a batch and the
\* Reasoner failed during synthesis.
C16_Witness ==
  /\ pc = "done"
  /\ rounds >= 1
  /\ invoked # << >>
  /\ invoked[Len(invoked)].agent = GeneralAgent
  /\ invoked[Len(invoked)].ctx.collected_info.specialist_results # << >>
  /\ answeredBy = GeneralAgent
  /\ resp.status = "COMPLETE"
  /\ resp.context.status = "failed"

C18_ResumptionTarget ==
  [][ ( /\ pc = "batch"
        /\ \A i \in 1..Len(tasks) : tasks[i].done /\ Resolve(tasks[i]).status # "AWAITING_INPUT" )
      => ( /\ pc' = "call"
           /\ fanOut.call_stack # << >>
           /\ call'.agent = fanOut.call_stack[Len(fanOut.call_stack)]
           /\ call'.agent = answeredBy
           /\ resp.context.call_stack = fanOut.call_stack
           /\ call'.ctx.call_stack = fanOut.call_stack
           /\ \A i \in 1..Len(tasks) :
                tasks[i].result.context.call_stack = fanOut.call_stack ) ]_vars

\* C18 witness: the Planning Worker delegated to token/sendFungibleAgent, the task
\* returned without pausing, and the router is about to call the Planning Worker.
C18_Witness ==
  /\ pc = "call"
  /\ rounds >= 1
  /\ Len(tasks) >= 1
  /\ tasks[1].agent = SendFungibleAgent
  /\ tasks[1].result.status # "AWAITING_INPUT"
  /\ call.agent = GeneralAgent
  /\ call.ctx.call_stack = <<GeneralAgent>>
  /\ fanOut.call_stack = <<GeneralAgent>>

\* C19 (empty delegation): for an envelope whose action is DELEGATE or
\* DELEGATE_PARALLEL and whose normalized task list (the one-element list holding
\* the payload for DELEGATE, the payload itself for DELEGATE_PARALLEL) is empty or
\* missing, the loop invokes no worker and returns the envelope with its action
\* replaced by COMPLETE_GOAL and its context, speech and ui unchanged.
C19_EmptyDelegation ==
  [][ ( /\ pc = "process"
        /\ resp.action.type \in {"DELEGATE", "DELEGATE_PARALLEL"}
        /\ LET list == IF resp.action.type = "DELEGATE" THEN <<resp.action.payload>>
                       ELSE resp.action.payload.items
           IN list = << >> )
      => ( /\ pc' = "done"
           /\ invoked' = invoked
           /\ call' = call
           /\ tasks' = tasks
           /\ resp'.action = [type |-> "COMPLETE_GOAL", payload |-> NoPayload]
           /\ resp'.context = resp.context
           /\ resp'.speech = resp.speech
           /\ resp'.ui = resp.ui ) ]_vars

\* C19 witness: the Planning Worker planned DELEGATE_PARALLEL without tasks and the
\* turn has ended with COMPLETE_GOAL after that single invocation.
C19_Witness ==
  /\ pc = "done"
  /\ Len(invoked) = 1
  /\ answeredBy = GeneralAgent
  /\ resp.action.type = "COMPLETE_GOAL"
  /\ resp.context # NullCtx
  /\ resp.context.status = "delegating"
  /\ resp.context.history[Len(resp.context.history)]
       = <<"GeneralAgent created a plan", "DELEGATE_PARALLEL">>

C21_DiscardedStayDiscarded ==
  \A n \in 1..Len(discarded) :
    LET d == discarded[n]
        Clean(c) == (c # NullCtx) =>
                      \A k \in 1..Len(c.collected_info.specialist_results) :
                        c.collected_info.specialist_results[k] # d.env
    IN /\ (d.turn = turn /\ pc = "done") => Clean(resp.context)
       /\ d.turn < turn =>
            /\ Clean(clientCtx) /\ Clean(reqCtx) /\ Clean(call.ctx)
            /\ (resp # NoEnvelope) => Clean(resp.context)
            /\ \A i \in 1..Len(invoked) : Clean(invoked[i].ctx)

\* a batch was preempted in turn 1, and in turn 2 a worker was given the results of
\* a later batch of the same goal
C21_Witness ==
  /\ discarded # << >> /\ discarded[1].turn = 1 /\ turn = 2 /\ pc = "done" /\ rounds >= 1
  /\ \E i \in 1..Len(invoked) : invoked[i].ctx.collected_info.specialist_results # << >>

\* C22 (malformed plan is fatal): when the Planning Worker's planning output carries
\* an action whose type is not COMPLETE_GOAL, DELEGATE or DELEGATE_PARALLEL, or a
\* DELEGATE without a task object, or a DELEGATE_PARALLEL without a task array, the
\* router invokes no worker for it and the turn ends with an envelope whose action is
\* COMPLETE_GOAL and whose state has status failed.
C22_MalformedPlanFatal ==
  [][ LET Malformed(a) ==
            \/ a.type \notin {"COMPLETE_GOAL", "DELEGATE", "DELEGATE_PARALLEL"}
            \/ a.type = "DELEGATE" /\ a.payload.kind # "object"
            \/ a.type = "DELEGATE_PARALLEL" /\ a.payload.kind # "array"
          BadPlan == /\ resp # NoEnvelope
                     /\ answeredBy = GeneralAgent
                     /\ Malformed(resp.action)
          StandardError(env) == /\ env.action = CompleteGoal
                                /\ env.context # NullCtx
                                /\ env.context.status = "failed"
      IN /\ (pc = "process" /\ BadPlan)
              => /\ invoked' = invoked
                 /\ pc' \in {"done", "threw"}
                 /\ pc' = "done" => StandardError(resp')
         /\ (pc = "threw" /\ BadPlan) => StandardError(resp') ]_vars

\* C23 (Reasoner failure is contained): whenever the Planning Worker is invoked, as
\* the routed worker, as the resumed delegator or as a task of a batch, and its
\* Reasoner call fails, the invocation yields the Planning Worker's own envelope and
\* not the router's envelope for a throwing worker: its action is COMPLETE_GOAL and
\* its state is the state the worker was given with status failed and the note
\* "GeneralAgent failed" appended to history, in the planning and in the
\* synthesizing phase.
C23_ReasonerFailureContained ==
  [][ LET new == Last(invoked')
          out == IF pc = "call" THEN resp' ELSE
                   tasks'[CHOOSE j \in 1..Len(tasks) : tasks'[j] # tasks[j]].result
      IN (Len(invoked') = Len(invoked) + 1 /\ new.agent = GeneralAgent /\ ~new.ok)
           => /\ out.status = "COMPLETE"
              /\ out.action = CompleteGoal
              /\ out.context = [new.ctx EXCEPT !.status = "failed",
                                               !.history = Append(@, <<"GeneralAgent failed">>)]
    ]_vars

\* C23 witnesses: the Reasoner failed in a planning invocation and in a synthesizing
\* invocation of the same turn
C23_Witness ==
  /\ pc = "done"
  /\ \E i \in 1..Len(invoked) :
       /\ invoked[i].agent = GeneralAgent /\ ~invoked[i].ok
       /\ invoked[i].ctx.collected_info.specialist_results # << >>
  /\ \E i \in 1..Len(invoked) :
       /\ invoked[i].agent = GeneralAgent /\ ~invoked[i].ok
       /\ invoked[i].ctx.collected_info.specialist_results = << >>

\* C24 (no automatic retry): within one turn, once an invocation of a worker has
\* failed (the worker threw, or returned an envelope whose state has status failed),
\* the router starts no further invocation of that worker: it is not among the tasks
\* of a batch started later in the turn, and it is not the worker the router resumes.
C24_NoAutomaticRetry ==
  [][ /\ (pc = "process" /\ pc' = "batch")
           => \A i \in 1..Len(tasks') : tasks'[i].agent \notin failedWorkers
      /\ (pc = "batch" /\ pc' = "call")
           => call'.agent \notin failedWorkers ]_vars

\* C25 (no silent overwrite): on every worker hop (the routed or resumed worker, and
\* each task of a batch) and on the router's resume step, every collected_info key
\* that holds a value in the state going in holds the same value in the state coming
\* out.  The new-goal sanitization is not among these steps.
C25_NoSilentOverwrite ==
  [][ LET Kept(a, b) ==
            /\ \A k \in InfoKeys \ {"specialist_results"} : ~Falsy(a[k]) => b[k] = a[k]
            /\ a.specialist_results # << >> => b.specialist_results = a.specialist_results
      IN /\ (pc = "call" /\ pc' # "call")
              => Kept(call.ctx.collected_info, resp'.context.collected_info)
         /\ (pc = "batch" /\ pc' = "batch")
              => \A i \in 1..Len(tasks) :
                   tasks'[i] # tasks[i]
                     => Kept(resp.context.collected_info,
                             tasks'[i].result.context.collected_info)
         /\ (pc = "batch" /\ pc' = "call")
              => Kept(resp.context.collected_info, call'.ctx.collected_info) ]_vars

\* C26 (status consistency): in the envelope a turn returns, status COMPLETE comes
\* with state status complete or failed, status AWAITING_INPUT comes with state status
\* awaiting_user_input and no other status does, and status DELEGATING comes with
\* state status delegating.
C26_StatusConsistency ==
  (pc = "done" /\ resp.context # NullCtx)
    => /\ resp.status = "COMPLETE" => resp.context.status \in {"complete", "failed"}
       /\ resp.status = "AWAITING_INPUT" <=> resp.context.status = "awaiting_user_input"
       /\ resp.status = "DELEGATING" => resp.context.status = "delegating"

\* C27 (a specialist's client-directed action reaches the caller): a turn in which a
\* task given to utility/memoryAgent completed with action UPDATE_LONG_TERM_MEMORY
\* returns an envelope that carries that action with its payload.
C27_MemoryActionForwarded ==
  pc = "done"
    => \A i \in 1..Len(tasks) :
         ( /\ tasks[i].done
           /\ tasks[i].agent = MemoryAgent
           /\ tasks[i].result.action.type = "UPDATE_LONG_TERM_MEMORY" )
           => resp.action = tasks[i].result.action

\* C28 (long-term memory is visible on every turn): in a turn whose request carried
\* a context and a longTermMemory, the state given to the first worker invoked has
\* collected_info.long_term_memory equal to the longTermMemory of the request.
C28_MemoryVisible ==
  (pc # "idle" /\ clientCtx # NullCtx /\ ~Falsy(reqLtm) /\ invoked # << >>)
    => invoked[1].ctx.collected_info.long_term_memory = reqLtm

\* C29 (first call): a turn whose request has no prior state and an empty prompt
\* invokes the bootstrap worker and no other worker, and returns the bootstrap
\* worker's envelope without a delegation step or a resume in between; the envelope
\* has status AWAITING_INPUT, asks for the name, and holds no value for name,
\* password, accountId or privateKey.
C29_FirstCall ==
  (pc = "done" /\ clientCtx = NullCtx /\ reqPrompt = "")
    => /\ Len(invoked) = 1
       /\ invoked[1].agent = OnboardingAgent
       /\ answeredBy = OnboardingAgent /\ rounds = 0 /\ tasks = << >>
       /\ resp.status = "AWAITING_INPUT"
       /\ resp.action = RequestUserInput
       /\ resp.ui = <<"onboarding:input-ui", "name">>
       /\ resp.context.status = "awaiting_user_input"
       /\ resp.context.collected_info.onboarding_step = "name"
       /\ \A i \in 1..Len(REQUIRED_INFO) :
            resp.context.collected_info[REQUIRED_INFO[i]] = Undef

\* C29 witness: the first call of a new user has been answered with a question
C29_Witness ==
  /\ pc = "done" /\ turn = 1 /\ clientCtx = NullCtx /\ reqPrompt = ""
  /\ resp.status = "AWAITING_INPUT"

\* C30 (onboarding progress): in a turn that continues the onboarding worker with a
\* non-empty reply (the click provide_existing_account at the account choice), the
\* worker stores the reply under the field it had asked for, keeps the fields stored
\* before, and asks the next question of the order name, password, account choice,
\* accountId, privateKey, which is never the question it had just asked; after the
\* reply to privateKey it returns COMPLETE with action SAVE_CREDENTIALS whose payload
\* is the four stored replies.
C30_OnboardingProgress ==
  LET prev == clientCtx.collected_info.onboarding_step
      was == clientCtx.collected_info
      now == resp.context.collected_info
      Fields == {"name", "password", "accountId", "privateKey"}
      Asks(f) == /\ resp.status = "AWAITING_INPUT"
                 /\ resp.ui = <<"onboarding:input-ui", f>>
                 /\ now.onboarding_step = f
      AsksChoice == /\ resp.status = "AWAITING_INPUT"
                    /\ resp.ui = <<"onboarding:choice-ui">>
                    /\ now.onboarding_step = "account_id_choice"
  IN ( /\ pc = "done"
       /\ clientCtx # NullCtx
       /\ clientCtx.status = "awaiting_user_input"
       /\ Last(clientCtx.call_stack) = OnboardingAgent
       /\ clientCtx.goal = "onboarding"
       /\ reqPrompt # ""
       /\ prev = "account_id_choice" => reqPrompt = "provide_existing_account" )
     => /\ answeredBy = OnboardingAgent
        /\ prev \in Fields \cup {"account_id_choice"}
        /\ \A f \in Fields : now[f] = IF f = prev THEN reqPrompt ELSE was[f]
        /\ prev = "name" => Asks("password")
        /\ prev = "password" => AsksChoice
        /\ prev = "account_id_choice" => Asks("accountId")
        /\ prev = "accountId" => Asks("privateKey")
        /\ prev = "privateKey"
             => /\ resp.status = "COMPLETE"
                /\ resp.action = Action("SAVE_CREDENTIALS",
                                        ObjectPayload([name |-> was.name,
                                                       accountId |-> was.accountId,
                                                       privateKey |-> reqPrompt,
                                                       password |-> was.password]))
                /\ \A f \in Fields : ~Falsy(now[f])

\* C30 witness: the sixth turn of the new user's walk ends onboarding with the
\* replies of turns 2, 3, 5 and 6 as the credentials
C30_Witness ==
  /\ pc = "done" /\ turn = 6 /\ answeredBy = OnboardingAgent
  /\ resp.status = "COMPLETE"
  /\ resp.action = Action("SAVE_CREDENTIALS",
                          ObjectPayload([name |-> "reply-1", accountId |-> "reply-4",
                                         privateKey |-> "reply-5", password |-> "reply-2"]))

\* C31 (suspendable worker makes progress): when token/sendFungibleAgent has asked a
\* question and is invoked again on the state it returned with a non-empty reply, the
\* state it returns holds the reply as the answer to that question (tokenId, then
\* amount, as the number read from the reply, then recipient) and it does not ask
\* that question again; after the three replies it no longer returns AWAITING_INPUT.
C31_SendProgress ==
  [][ LET asked == resp.ui[2]
          now == resp'.context.collected_info
      IN (scenario = "send" /\ resp # NoEnvelope /\ resp.status = "AWAITING_INPUT"
            /\ turn' = turn + 1)
           => /\ asked = "token ID" => now.tokenId = reqPrompt'
              /\ asked = "amount" => now.amount = ParseFloat(reqPrompt')
              /\ asked = "recipient" => now.recipient = reqPrompt'
              /\ resp'.status = "AWAITING_INPUT" => resp'.ui # resp.ui
              /\ turn' >= 4 => resp'.status # "AWAITING_INPUT" ]_vars

\* C32 (account creation during onboarding): in the turn in which the user answers
\* the pause of the account-creation worker with creation_confirmed, the first worker
\* invoked is wallet/createAccountAgent and it returns COMPLETE, the onboarding worker
\* is then resumed with that result, the returned state holds the created accountId
\* and privateKey, and the turn does not end with the account choice question.
C32_CreationConfirmed ==
  ( /\ pc = "done"
    /\ lastResp # NoEnvelope
    /\ lastResp.ui = <<"createAccount:keys-ui">>
    /\ reqPrompt = "creation_confirmed" )
    => /\ invoked[1].agent = CreateAccountAgent
       /\ \E i \in 2..Len(invoked) :
            /\ invoked[i].agent = OnboardingAgent
            /\ invoked[i].ctx.collected_info.specialist_results # << >>
            /\ invoked[i].ctx.collected_info.specialist_results[1].status = "COMPLETE"
       /\ resp.context.collected_info.accountId
            = clientCtx.collected_info.lastCreatedAccountId
       /\ resp.context.collected_info.privateKey
            = clientCtx.collected_info.lastCreatedAccountPrivateKey
       /\ resp.ui # <<"onboarding:choice-ui">>

\* C33 (the recursive router subsumes the single-shot router): on every request
\* with a prior state the two routers choose the same first worker with the same
\* prompt and state, and after a first batch in which no task paused they call the
\* same worker with the same prompt and state for the synthesis; with the same
\* workers the two routers then invoke the same workers with the same arguments and
\* return the same envelope.
C33_RouterEquivalence ==
  LET Same(a, b) == a.agent = b.agent /\ a.prompt = b.prompt /\ a.ctx = b.ctx
  IN /\ (pc = "route" /\ reqCtx # NullCtx)
          => Same(RouteDecision("V2", reqPrompt, reqCtx),
                  RouteDecision("V3", reqPrompt, reqCtx))
     /\ ( /\ pc = "batch" /\ rounds = 0
          /\ \A i \in 1..Len(tasks) : tasks[i].done
          /\ PausingIndex(SpecialistResults) = 0 )
          => Same(ResumeCall("V2", resp, reqPrompt, SpecialistResults),
                  ResumeCall("V3", resp, reqPrompt, SpecialistResults))

C35_FirstPauseWins ==
  [][ LET paused == {i \in 1..Len(tasks) : Resolve(tasks[i]).status = "AWAITING_INPUT"}
          first == CHOOSE i \in paused : \A j \in paused : i <= j
      IN ( /\ pc = "batch"
           /\ \A i \in 1..Len(tasks) : tasks[i].done
           /\ Cardinality(paused) >= 2 )
           => (pc' = "done" /\ resp' = Resolve(tasks[first])) ]_vars

C37_OnboardingDelegationTerminates ==
  ~( /\ pc = "batch"
     /\ \A i \in 1..Len(tasks) : tasks[i].done
     /\ rounds = MaxRounds
     /\ invoked[1].agent = OnboardingAgent
     /\ invoked[1].prompt = "create_new_account"
     /\ Len(SelectSeq(invoked, LAMBDA v : v.agent = CreateAccountAgent)) = MaxRounds + 1
     /\ \A n \in 1..Len(invoked) : invoked[n].agent = CreateAccountAgent => ~invoked[n].ok )

\* C38 (identity persists across turns): once the state the page holds, echoed back
\* with every request, carries a non-empty collected_info.accountId, every worker
\* invoked in a later turn receives a state with that accountId, the state returned at
\* the end of the turn carries it too (whether the turn ended normally, with a worker's
\* error envelope or in the last safety net), and the router does not start the
\* onboarding worker afresh through the bootstrap gate.
C38_IdentityPersists ==
  LET known == ~IsNull(clientCtx) /\ ~Falsy(clientCtx.collected_info.accountId)
      Same(c) == ~IsNull(c) /\ c.collected_info.accountId = clientCtx.collected_info.accountId
  IN known =>
       /\ pc = "done" => Same(resp.context)
       /\ lastResp # NoEnvelope => Same(lastResp.context)
       /\ \A n \in 1..Len(invoked) : Same(invoked[n].ctx)
       /\ pc = "call" => /\ Same(call.ctx)
                         /\ ~(call.agent = OnboardingAgent /\ call.prompt = "Begin Onboarding")

\* a second turn of a session whose first turn returned a state with an accountId ends
\* in the last safety net, and the state about to be returned still has the accountId
C38_Witness ==
  /\ pc = "done"
  /\ turn >= 2
  /\ lastResp # NoEnvelope
  /\ ~IsNull(lastResp.context)
  /\ ~Falsy(lastResp.context.collected_info.accountId)
  /\ resp.ui = <<"critical:system-error">>
  /\ resp.context.collected_info.accountId = lastResp.context.collected_info.accountId

====
